---- MODULE Spec2Model ----
(***************************************************************************)
(* Model of the WebPaymentsCOF backend: a micro/microrouter HTTP server    *)
(* whose handlers validate a JSON body with an Ajv JTD validator and then  *)
(* call the Square client inside async-retry.                              *)
(*                                                                         *)
(*   src/unnamed/part_000   the server: handlers and the route table       *)
(*   src/server/schema.js   the JTD schemas and the compiled validators    *)
(***************************************************************************)
EXTENDS Integers, Sequences, FiniteSets, TLC

(***************************************************************************)
(* JSON values.  A value is a record of one shape so that any two values   *)
(* can be compared.  A number is hi * 65536 + lo + fr / 10 with            *)
(* lo \in 0..65535 and fr \in 0..9, which keeps 2^32 representable.        *)
(* Undefined is what JavaScript yields when a missing property is read.    *)
(***************************************************************************)
Undefined == [t |-> "undefined", s |-> "", hi |-> 0, lo |-> 0, fr |-> 0]

Str(x) == [t |-> "string", s |-> x, hi |-> 0, lo |-> 0, fr |-> 0]

Num(h, l, f) == [t |-> "number", s |-> "", hi |-> h, lo |-> l, fr |-> f]

\* JavaScript truthiness, as used by `a || b` and `if (a)`.
Truthy(v) ==
    CASE v.t = "string" -> v.s # ""
      [] v.t = "number" -> ~(v.hi = 0 /\ v.lo = 0 /\ v.fr = 0)
      [] OTHER -> FALSE

(***************************************************************************)
(* src/server/schema.js: JTD "properties" forms.  A schema lists required  *)
(* properties and optional properties, each with a JTD type.               *)
(***************************************************************************)
paymentSchema ==
    [properties |-> [sourceId |-> "string", locationId |-> "string"],
     optionalProperties |-> [amount |-> "uint32", idempotencyKey |-> "string",
                             verificationToken |-> "string"]]

searchCustomerSchema ==
    [properties |-> [emailAddress |-> "string"],
     optionalProperties |-> << >>]

listCardsSchema ==
    [properties |-> [customerId |-> "string"],
     optionalProperties |-> << >>]

cardSchema ==
    [properties |-> [expMonth |-> "uint32", expYear |-> "uint32",
                     cardHolderName |-> "string", customerId |-> "string",
                     idempotencyKey |-> "string", sourceId |-> "string",
                     verificationToken |-> "string"],
     optionalProperties |-> << >>]

\* Every property name a payload of the model may carry.
Fields ==
    {"sourceId", "locationId", "amount", "idempotencyKey", "verificationToken",
     "expMonth", "expYear", "cardHolderName", "customerId", "emailAddress",
     "customerID", "note"}

\* A payload maps every name of Fields to its value, Undefined when the
\* decoded body has no such property.
Has(payload, f) == payload[f].t # "undefined"

\* Variant: uint32 checks the JavaScript type alone.
TypeOk_AnyNumber(type, v) ==
    CASE type = "string" -> v.t = "string"
      [] type = "uint32" -> v.t = "number"
      [] OTHER -> FALSE

\* Ajv's JTD type checks: "string" is typeof string; "uint32" is a finite
\* number with no fractional part in 0..4294967295.
TypeOk(type, v) ==
    CASE type = "string" -> v.t = "string"
      [] type = "uint32" -> /\ v.t = "number"
                            /\ v.fr = 0
                            /\ v.hi >= 0
                            /\ v.hi <= 65535
      [] OTHER -> FALSE

\* Variant: the schema compiled as if it said additionalProperties: true.
JtdValidate_AdditionalProperties(schema, payload) ==
    /\ \A f \in DOMAIN schema.properties :
          Has(payload, f) /\ TypeOk(schema.properties[f], payload[f])
    /\ \A f \in DOMAIN schema.optionalProperties :
          Has(payload, f) => TypeOk(schema.optionalProperties[f], payload[f])

\* ajv.compile(schema) for a JTD properties form without
\* additionalProperties: every required property present and well typed,
\* every present optional property well typed, no other property present.
JtdValidate(schema, payload) ==
    /\ \A f \in DOMAIN schema.properties :
          Has(payload, f) /\ TypeOk(schema.properties[f], payload[f])
    /\ \A f \in DOMAIN schema.optionalProperties :
          Has(payload, f) => TypeOk(schema.optionalProperties[f], payload[f])
    /\ \A f \in Fields :
          Has(payload, f) =>
             f \in (DOMAIN schema.properties) \cup (DOMAIN schema.optionalProperties)

validatePaymentPayload(payload) == JtdValidate(paymentSchema, payload)

validateSearchCustomerPayload(payload) == JtdValidate(searchCustomerSchema, payload)

validateListCardsPayload(payload) == JtdValidate(listCardsSchema, payload)

validateCardPayload(payload) == JtdValidate(cardSchema, payload)

(***************************************************************************)
(* src/unnamed/part_000: the names the server module binds.  Line 13       *)
(* imports validatePaymentPayload alone from ./server/schema and line 15   *)
(* binds the Square client as `square`; reading any other identifier       *)
(* throws a ReferenceError.                                                *)
(***************************************************************************)
ModuleBindings ==
    {"createError", "json", "send", "router", "get", "post", "staticHandler",
     "retry", "logger", "validatePaymentPayload", "ApiError", "square", "nanoid"}

\* The validator identifier each handler calls.
ValidatorName(h) ==
    CASE h = "createPayment" -> "validatePaymentPayload"
      [] h = "createCard" -> "validateCardPayload"
      [] h = "listCards" -> "validateListCardsPayload"
      [] h = "searchCustomers" -> "validateSearchCustomerPayload"

\* The identifier through which each handler reaches the payments client.
ClientName(h) ==
    CASE h = "createPayment" -> "square"
      [] h = "createCard" -> "square"
      [] h = "listCards" -> "client"
      [] h = "searchCustomers" -> "client"

\* The validator function of schema.js that the identifier names.
RunValidator(name, payload) ==
    CASE name = "validatePaymentPayload" -> validatePaymentPayload(payload)
      [] name = "validateCardPayload" -> validateCardPayload(payload)
      [] name = "validateListCardsPayload" -> validateListCardsPayload(payload)
      [] name = "validateSearchCustomerPayload" -> validateSearchCustomerPayload(payload)

\* `if (!validateXPayload(payload))` in a handler: the identifier is looked
\* up in the module scope, then the payload is checked.
ValidatorBound(h) == ValidatorName(h) \in ModuleBindings

\* Variant: payload validation switched off.
PayloadAccepted_Disabled(h, payload) == TRUE

PayloadAccepted(h, payload) == RunValidator(ValidatorName(h), payload)

ClientBound(h) == ClientName(h) \in ModuleBindings

(***************************************************************************)
(* The route table of module.exports, in declaration order.  A path is the *)
(* sequence of its segments; the pattern segment "*" is url-pattern's      *)
(* wildcard, which matches whatever remains of the path.                   *)
(***************************************************************************)
Routes ==
    << [method |-> "POST", pattern |-> <<"cof">>, handler |-> "createCard"],
       [method |-> "POST", pattern |-> <<"payment">>, handler |-> "createPayment"],
       [method |-> "GET", pattern |-> <<"*">>, handler |-> "serveStatic"],
       [method |-> "GET", pattern |-> <<"cards">>, handler |-> "listCards"],
       [method |-> "POST", pattern |-> <<"searchCustomer">>, handler |-> "searchCustomers"] >>

RECURSIVE PatternMatches(_, _)
PatternMatches(pattern, path) ==
    IF pattern = << >> THEN path = << >>
    ELSE IF Head(pattern) = "*" THEN Len(pattern) = 1
    ELSE /\ path # << >>
         /\ Head(pattern) = Head(path)
         /\ PatternMatches(Tail(pattern), Tail(path))

\* microrouter's per-route function: the handler runs when the path matches
\* the pattern and the method is the route's.
RouteMatches(route, method, path) ==
    PatternMatches(route.pattern, path) /\ method = route.method

(***************************************************************************)
(* async-retry is called without options: node-retry's default of 10       *)
(* retries, so an operation runs at most 11 times.                         *)
(***************************************************************************)
Retries == 10

MaxAttempts == Retries + 1

\* nanoid(): the n-th identifier generated by the process.
nanoid(n) == Str("nanoid-" \o ToString(n))

\* `payload.idempotencyKey || nanoid()`, evaluated inside the retried
\* function; n is the number of identifiers generated so far.
NeedsNanoid(payload) == ~Truthy(payload["idempotencyKey"])

IdempotencyKey(payload, n) ==
    IF Truthy(payload["idempotencyKey"]) THEN payload["idempotencyKey"]
    ELSE nanoid(n + 1)

\* Variant: the client's amount is forwarded when the payload carries one.
PaymentRequest_ForwardsAmount(payload, key) ==
    [idempotencyKey |-> key,
     locationId |-> payload["locationId"],
     sourceId |-> payload["sourceId"],
     amountMoney |-> [amount |-> IF Has(payload, "amount") THEN payload["amount"]
                                 ELSE Str("100"),
                      currency |-> Str("USD")]]

\* Variant: verificationToken is copied unconditionally, as createCard does.
PaymentRequest_AlwaysToken(payload, key) ==
    [idempotencyKey |-> key,
     locationId |-> payload["locationId"],
     sourceId |-> payload["sourceId"],
     amountMoney |-> [amount |-> Str("100"), currency |-> Str("USD")],
     verificationToken |-> payload["verificationToken"]]

\* createPayment, lines 31-54: the request passed to
\* square.paymentsApi.createPayment.
PaymentRequest(payload, key) ==
    LET payment == [idempotencyKey |-> key,
                    locationId |-> payload["locationId"],
                    sourceId |-> payload["sourceId"],
                    amountMoney |-> [amount |-> Str("100"), currency |-> Str("USD")]]
    IN  IF Truthy(payload["verificationToken"])
        THEN [f \in (DOMAIN payment) \cup {"verificationToken"} |->
                 IF f = "verificationToken" THEN payload["verificationToken"]
                 ELSE payment[f]]
        ELSE payment

\* createCard, lines 95-106: the request passed to square.cardsApi.createCard.
CardRequest(payload, key) ==
    [card |-> [expMonth |-> payload["expMonth"],
               expYear |-> payload["expYear"],
               cardHolderName |-> payload["cardHolderName"],
               customerId |-> payload["customerID"]],
     idempotencyKey |-> key,
     sourceId |-> payload["sourceId"],
     verificationToken |-> payload["verificationToken"]]

\* listCards, line 147: the argument of cardsApi.listCards.
ListCardsRequest(payload) == [customerId |-> payload["customerId"]]

\* searchCustomers, lines 187-195: the argument of customersApi.searchCustomers.
SearchCustomersRequest(payload) ==
    [query |-> [filter |-> [emailAddress |-> [exact |-> payload["emailAddress"]]]]]

\* The payments-client operation each handler calls.
ApiOf(h) ==
    CASE h = "createPayment" -> "paymentsApi.createPayment"
      [] h = "createCard" -> "cardsApi.createCard"
      [] h = "listCards" -> "cardsApi.listCards"
      [] h = "searchCustomers" -> "customersApi.searchCustomers"

ExternalRequest(h, payload, key) ==
    CASE h = "createPayment" -> PaymentRequest(payload, key)
      [] h = "createCard" -> CardRequest(payload, key)
      [] h = "listCards" -> ListCardsRequest(payload)
      [] h = "searchCustomers" -> SearchCustomersRequest(payload)

(***************************************************************************)
(* The payments client's results.  A result is a function from property    *)
(* names to objects; createPayment and createCard read result.payment and  *)
(* result.card, listCards and searchCustomers read result[0].card and      *)
(* result[0].customer.                                                     *)
(***************************************************************************)
PaymentObject ==
    [id |-> "pay1", status |-> "COMPLETED", receiptUrl |-> "https://receipt/1",
     orderId |-> "ord1", sourceType |-> "CARD"]

CardObject == [id |-> "card1", cardBrand |-> "VISA", last4 |-> "1111", expMonth |-> "12"]

CustomerObject ==
    [id |-> "cust1", givenName |-> "Ada", familyName |-> "Byron", emailAddress |-> "a@b.c"]

\* The success results the model draws from: one that carries the object
\* the mapping reads and one that does not.
SuccessResults(h) ==
    CASE h = "createPayment" -> {[payment |-> PaymentObject], [cursor |-> PaymentObject]}
      [] h = "createCard" -> {[card |-> CardObject], [cursor |-> CardObject]}
      [] h = "listCards" -> {<<[card |-> CardObject]>>, << >>}
      [] h = "searchCustomers" -> {<<[customer |-> CustomerObject]>>, << >>}

\* Whether the response mapping can read the result: result.payment.id and
\* the like throw a TypeError when the object read is undefined.
Mappable(h, result) ==
    CASE h = "createPayment" -> "payment" \in DOMAIN result
      [] h = "createCard" -> "card" \in DOMAIN result
      [] h = "listCards" -> 1 \in DOMAIN result /\ "card" \in DOMAIN result[1]
      [] h = "searchCustomers" -> 1 \in DOMAIN result /\ "customer" \in DOMAIN result[1]

\* Variant: the order id is left out of the response.
PaymentResponse_NoOrderId(result) ==
    [success |-> TRUE,
     payment |-> [id |-> result.payment.id,
                  status |-> result.payment.status,
                  receiptUrl |-> result.payment.receiptUrl]]

\* The body passed to send(res, statusCode, ...) by each handler.
PaymentResponse(result) ==
    [success |-> TRUE,
     payment |-> [id |-> result.payment.id,
                  status |-> result.payment.status,
                  receiptUrl |-> result.payment.receiptUrl,
                  orderId |-> result.payment.orderId]]

CardResponse(result) == [success |-> TRUE, card |-> [id |-> result.card.id]]

ListCardsResponse(result) ==
    [success |-> TRUE,
     card |-> [id |-> result[1].card.id,
               card_brand |-> result[1].card.cardBrand,
               last4 |-> result[1].card.last4]]

SearchCustomersResponse(result) ==
    [success |-> TRUE,
     customer |-> [id |-> result[1].customer.id,
                   given_name |-> result[1].customer.givenName,
                   family_name |-> result[1].customer.familyName]]

ResponseBody(h, result) ==
    CASE h = "createPayment" -> PaymentResponse(result)
      [] h = "createCard" -> CardResponse(result)
      [] h = "listCards" -> ListCardsResponse(result)
      [] h = "searchCustomers" -> SearchCustomersResponse(result)

\* The status the payments client reports with a success result, and the
\* statuses an ApiError may carry.
SuccessStatus == {200}

ApiErrorStatus == {400, 401}

\* micro's error response: the error's statusCode when it has one, else 500.
ErrorStatus(error) ==
    CASE error.kind = "HttpError" -> error.statusCode
      [] error.kind = "ApiError" -> error.statusCode
      [] OTHER -> 500

(***************************************************************************)
(* Inbound requests.                                                       *)
(***************************************************************************)
Payload(assign) == [f \in Fields |-> IF f \in DOMAIN assign THEN assign[f] ELSE Undefined]

StringValues(x) == {Undefined, Str(x), Num(0, 7, 0)}

KeyValues(x) == {Undefined, Str(x), Str(""), Num(0, 7, 0)}

\* absent, 250, -1, 2^32, 1.5 and the string "250"
Uint32Values ==
    {Undefined, Num(0, 250, 0), Num(-1, 65535, 0), Num(65536, 0, 0), Num(0, 1, 5),
     Str("250")}

MonthValues == {Undefined, Num(0, 12, 0), Str("12")}

PaymentPayloads ==
    { Payload(a) : a \in [sourceId : StringValues("src1"),
                          locationId : StringValues("loc1"),
                          amount : Uint32Values,
                          idempotencyKey : KeyValues("key1"),
                          verificationToken : KeyValues("tok1"),
                          note : {Undefined, Str("hello")}] }

CardPayloads ==
    { Payload(a) : a \in [expMonth : MonthValues,
                          expYear : {Undefined, Num(0, 2030, 0)},
                          cardHolderName : {Undefined, Str("Ada Byron")},
                          customerId : StringValues("cust1"),
                          idempotencyKey : KeyValues("key1"),
                          sourceId : {Undefined, Str("src1")},
                          verificationToken : KeyValues("tok1"),
                          customerID : {Undefined, Str("cust1")}] }

ListCardsPayloads ==
    { Payload(a) : a \in [customerId : StringValues("cust1"),
                          note : {Undefined, Str("hello")}] }

SearchCustomerPayloads ==
    { Payload(a) : a \in [emailAddress : StringValues("a@b.c"),
                          note : {Undefined, Str("hello")}] }

\* The requests the model receives: each documented endpoint with payloads
\* of its operation, and one request for a static asset.
InboundRequests ==
    {[method |-> "POST", path |-> <<"payment">>, payload |-> p] : p \in PaymentPayloads}
    \cup {[method |-> "POST", path |-> <<"cof">>, payload |-> p] : p \in CardPayloads}
    \cup {[method |-> "GET", path |-> <<"cards">>, payload |-> p] : p \in ListCardsPayloads}
    \cup {[method |-> "POST", path |-> <<"searchCustomer">>, payload |-> p] :
             p \in SearchCustomerPayloads}
    \cup {[method |-> "GET", path |-> <<"index.html">>, payload |-> Payload(<< >>)]}

(***************************************************************************)
(* State.  requests[r] is the state of inbound request r: its inputs, the  *)
(* position of its handler, and what it has done so far.  nanoCount is the *)
(* number of identifiers nanoid() has generated in the process.  probe is  *)
(* a validator or request builder applied on its own to one payload.       *)
(* faults is the set of messages with which calls of the payments client   *)
(* can fail in this run, other than with an ApiError.                      *)
(***************************************************************************)
VARIABLES requests, nanoCount, probe, faults

vars == <<requests, nanoCount, probe, faults>>

Reqs == {"r1", "r2"}

NoError == [kind |-> "none", statusCode |-> 0, message |-> ""]

NoLog == [hasAttempt |-> FALSE, attempt |-> 0, cause |-> "none"]

\* The messages of the errors the payments client throws when a call fails
\* for a reason other than an ApiError.
TransientMessages == {"ECONNRESET", "ETIMEDOUT"}

\* The error of reading `.id` of the object a result lacks.
TypeErrorOfMapping ==
    [kind |-> "TypeError", statusCode |-> 0,
     message |-> "Cannot read properties of undefined (reading 'id')"]

\* The error of reading an identifier the module does not bind.
ReferenceErrorOf(name) ==
    [kind |-> "ReferenceError", statusCode |-> 0, message |-> name \o " is not defined"]

\* The message of the ApiError the payments client throws.
ApiErrorMessage == "Response status code was not ok"

\* The errors that node-retry's operation.retry(err) may be handed.
RetriedErrors ==
    {[kind |-> "Error", statusCode |-> 0, message |-> m] : m \in TransientMessages}
    \cup {TypeErrorOfMapping, ReferenceErrorOf("client")}

RetriedMessages == {e.message : e \in RetriedErrors}

\* The messages of all errors the try block can throw.
CaughtMessages == RetriedMessages \cup {ApiErrorMessage}

\* node-retry's record of the errors of an operation, as mainError() reads
\* it: the number of errors per message, and the main error with its count
\* after the errors pushed so far.
NoneThrown ==
    [counts |-> [m \in CaughtMessages |-> 0], mainError |-> NoError, mainErrorCount |-> 0]

NoResponse == [status |-> 0, body |-> [success |-> FALSE]]

\* A request that has not arrived.
Absent ==
    [method |-> "", path |-> << >>, payload |-> Payload(<< >>),
     pc |-> "absent", routeIdx |-> 0, handler |-> "none",
     attempt |-> 0, inflight |-> {}, sent |-> << >>, lastAttempt |-> "none",
     extSucceeded |-> 0, apiErrorAt |-> 0, errors |-> NoneThrown,
     retryPromise |-> "none", successSends |-> 0, headersSent |-> FALSE,
     response |-> NoResponse, error |-> NoError,
     errorLogs |-> 0, lastLog |-> NoLog]

\* No function is being applied on its own.
NoProbe ==
    [fn |-> "none", name |-> "none", payload |-> Payload(<< >>), done |-> FALSE,
     accepted |-> FALSE, request |-> [api |-> "none"]]

\* A request as micro hands it to the router.
Arrived(in) ==
    [Absent EXCEPT !.method = in.method, !.path = in.path, !.payload = in.payload,
                   !.pc = "route", !.routeIdx = 1]

Init ==
    /\ \E in \in InboundRequests :
          requests = [r \in Reqs |-> IF r = "r1" THEN Arrived(in) ELSE Absent]
    /\ nanoCount = 0
    /\ probe = NoProbe
    /\ faults = TransientMessages

\* micro's run(): a handler that throws is answered with the error's status.
Rejected(q, error) ==
    [q EXCEPT !.pc = "done", !.error = error, !.headersSent = TRUE,
              !.response = [status |-> ErrorStatus(error), body |-> [success |-> FALSE]]]

(***************************************************************************)
(* The router, lines 232-238.                                              *)
(***************************************************************************)
\* The route at routeIdx does not match: its function returns undefined and
\* the router goes on to the next route.
RouteSkip(r) ==
    LET q == requests[r] IN
    /\ q.pc = "route"
    /\ q.routeIdx <= Len(Routes)
    /\ ~RouteMatches(Routes[q.routeIdx], q.method, q.path)
    /\ requests' = [requests EXCEPT ![r] = [q EXCEPT !.routeIdx = q.routeIdx + 1]]
    /\ UNCHANGED <<nanoCount, probe, faults>>

\* The route at routeIdx matches: its handler is called.
RouteInvoke(r) ==
    LET q == requests[r] IN
    /\ q.pc = "route"
    /\ q.routeIdx <= Len(Routes)
    /\ RouteMatches(Routes[q.routeIdx], q.method, q.path)
    /\ requests' = [requests EXCEPT ![r] =
          [q EXCEPT !.handler = Routes[q.routeIdx].handler,
                    !.pc = IF Routes[q.routeIdx].handler = "serveStatic"
                           THEN "static" ELSE "validate"]]
    /\ UNCHANGED <<nanoCount, probe, faults>>

\* serveStatic, lines 224-229: serve-handler answers with the file or 404.
ServeStatic(r) ==
    LET q == requests[r] IN
    /\ q.pc = "static"
    /\ \E st \in {200, 404} :
          requests' = [requests EXCEPT ![r] =
             [q EXCEPT !.pc = "done", !.headersSent = TRUE,
                       !.response = [status |-> st, body |-> [success |-> FALSE]]]]
    /\ UNCHANGED <<nanoCount, probe, faults>>

(***************************************************************************)
(* The head of a handler: decode the body, validate it, call retry.        *)
(***************************************************************************)
\* The validator identifier is not bound in the module: ReferenceError.
ValidatorUnbound(r) ==
    LET q == requests[r] IN
    /\ q.pc = "validate"
    /\ ~ValidatorBound(q.handler)
    /\ requests' = [requests EXCEPT ![r] =
          Rejected(q, ReferenceErrorOf(ValidatorName(q.handler)))]
    /\ UNCHANGED <<nanoCount, probe, faults>>

\* throw createError(400, 'Bad Request')
RejectPayload(r) ==
    LET q == requests[r] IN
    /\ q.pc = "validate"
    /\ ValidatorBound(q.handler)
    /\ ~PayloadAccepted(q.handler, q.payload)
    /\ requests' = [requests EXCEPT ![r] =
          Rejected(q, [kind |-> "HttpError", statusCode |-> 400, message |-> "Bad Request"])]
    /\ UNCHANGED <<nanoCount, probe, faults>>

\* retry(fn): the first attempt is started at once, with attempt number 1.
EnterRetry(r) ==
    LET q == requests[r] IN
    /\ q.pc = "validate"
    /\ ValidatorBound(q.handler)
    /\ PayloadAccepted(q.handler, q.payload)
    /\ requests' = [requests EXCEPT ![r] =
          [q EXCEPT !.pc = "attempt", !.attempt = 1, !.retryPromise = "pending"]]
    /\ UNCHANGED <<nanoCount, probe, faults>>

(***************************************************************************)
(* The retried function and async-retry.                                   *)
(***************************************************************************)
\* Whether the handler computes an idempotency key for its request.
UsesKey(h) == h \in {"createPayment", "createCard"}

\* Variant: every error is taken for a transient one.
InstanceOfApiError_Never(ex) == FALSE

\* `ex instanceof ApiError`
InstanceOfApiError(ex) == ex.kind = "ApiError"

\* Variant: the retry budget is one attempt short.
ShouldRetry_OffByOne(attempt) == attempt < Retries

\* Variant: the retries are counted in module scope, over all requests.
ShouldRetry_SharedBudget(attempt) ==
    requests["r1"].attempt + requests["r2"].attempt <= Retries + 1

\* node-retry's operation.retry(err): another attempt is scheduled while
\* one of the Retries timeouts is left.
ShouldRetry(attempt) == attempt <= Retries

\* node-retry's operation.retry(err) pushes the error on its list, and
\* mainError() loops over the list: it counts the errors by message and
\* keeps the latest error whose count is not below the highest count so
\* far.  PushError is one turn of that loop, for the error just pushed.
PushError(acc, error) ==
    LET count == acc.counts[error.message] + 1
        main == count >= acc.mainErrorCount
    IN  [counts |-> [acc.counts EXCEPT ![error.message] = count],
         mainError |-> IF main THEN error ELSE acc.mainError,
         mainErrorCount |-> IF main THEN count ELSE acc.mainErrorCount]

\* node-retry's mainError(), after the loop over the errors pushed.
MainError(acc) == acc.mainError

\* The catch block of the retried function, lines 71-81, and what
\* async-retry does with its outcome.  An ApiError is logged and bailed:
\* the promise of retry() is rejected with it and the function returns.
\* Any other error is logged with the attempt number and thrown again, and
\* async-retry's onError schedules the next attempt or gives up.
Caught(q, ex) ==
    IF InstanceOfApiError(ex)
    THEN [Rejected(q, ex) EXCEPT
             !.errorLogs = q.errorLogs + 1,
             !.lastLog = [hasAttempt |-> FALSE, attempt |-> 0, cause |-> ex.kind],
             !.lastAttempt = "bailed",
             !.retryPromise = "rejected"]
    ELSE LET errors == PushError(q.errors, ex)
             logged == [q EXCEPT
                 !.errorLogs = q.errorLogs + 1,
                 !.lastLog = [hasAttempt |-> TRUE, attempt |-> q.attempt, cause |-> ex.kind],
                 !.lastAttempt = "failed",
                 !.errors = errors]
         IN  IF ShouldRetry(q.attempt)
             THEN [logged EXCEPT !.pc = "backoff"]
             ELSE [Rejected(logged, MainError(errors)) EXCEPT !.retryPromise = "rejected"]

\* Variant: the function throws after it has sent the response.
Responded_ThenThrows(q, sc, body) ==
    Caught([q EXCEPT !.headersSent = TRUE,
                     !.response = [status |-> sc, body |-> body],
                     !.successSends = q.successSends + 1],
           TypeErrorOfMapping)

\* send(res, statusCode, body) as the last statement of the try block: the
\* function returns, the promise of retry() resolves and the handler ends.
Responded(q, sc, body) ==
    [q EXCEPT !.pc = "done",
              !.headersSent = TRUE,
              !.response = [status |-> sc, body |-> body],
              !.successSends = q.successSends + 1,
              !.lastAttempt = "succeeded",
              !.retryPromise = "resolved"]

\* The retried function up to its await: it builds the request and calls
\* the payments client.  Reading an unbound client identifier throws inside
\* the try block.
AttemptCall(r) ==
    LET q == requests[r]
        h == q.handler
        key == IdempotencyKey(q.payload, nanoCount)
    IN
    /\ q.pc = "attempt"
    /\ IF ClientBound(h)
       THEN /\ requests' = [requests EXCEPT ![r] =
                  [q EXCEPT !.pc = "calling",
                            !.inflight = q.inflight \cup {q.attempt},
                            !.sent = Append(q.sent,
                                [api |-> ApiOf(h), attempt |-> q.attempt,
                                 request |-> ExternalRequest(h, q.payload, key)])]]
            /\ nanoCount' = IF UsesKey(h) /\ NeedsNanoid(q.payload)
                            THEN nanoCount + 1 ELSE nanoCount
            /\ UNCHANGED <<probe, faults>>
       ELSE /\ requests' = [requests EXCEPT ![r] =
                  Caught(q, ReferenceErrorOf(ClientName(h)))]
            /\ UNCHANGED <<nanoCount, probe, faults>>

\* The payments client returns {result, statusCode}.  The function maps the
\* result and sends the response; the mapping throws a TypeError, inside the
\* try block, when the result lacks the object it reads.
ExternalSuccess(r) ==
    LET q == requests[r]
        h == q.handler
        back == [q EXCEPT !.inflight = q.inflight \ {q.attempt},
                          !.extSucceeded = q.extSucceeded + 1]
    IN
    /\ q.pc = "calling"
    /\ \E result \in SuccessResults(h), sc \in SuccessStatus :
          requests' = [requests EXCEPT ![r] =
             IF Mappable(h, result)
             THEN Responded(back, sc, ResponseBody(h, result))
             ELSE Caught(back, TypeErrorOfMapping)]
    /\ UNCHANGED <<nanoCount, probe, faults>>

\* The payments client throws an ApiError.
ExternalApiError(r) ==
    LET q == requests[r]
        back == [q EXCEPT !.inflight = q.inflight \ {q.attempt},
                          !.apiErrorAt = q.attempt]
    IN
    /\ q.pc = "calling"
    /\ \E sc \in ApiErrorStatus :
          requests' = [requests EXCEPT ![r] =
             Caught(back, [kind |-> "ApiError", statusCode |-> sc,
                           message |-> ApiErrorMessage])]
    /\ UNCHANGED <<nanoCount, probe, faults>>

\* The payments client throws any other error.
ExternalTransient(r) ==
    LET q == requests[r]
        back == [q EXCEPT !.inflight = q.inflight \ {q.attempt}]
    IN
    /\ q.pc = "calling"
    /\ \E m \in faults :
          requests' = [requests EXCEPT ![r] =
             Caught(back, [kind |-> "Error", statusCode |-> 0, message |-> m])]
    /\ UNCHANGED <<nanoCount, probe, faults>>

\* Variant: the next attempt is started on a timer, whether or not the
\* attempt before it has returned.
RetryDue_WithoutWaiting(q) == q.pc \in {"backoff", "calling"} /\ q.attempt < MaxAttempts

\* Variant: onError never arms the timeout of the next attempt.
RetryDue_Never(q) == FALSE

\* async-retry starts the next attempt when the timeout that onError
\* scheduled fires.
RetryDue(q) == q.pc = "backoff"

BackoffElapsed(r) ==
    LET q == requests[r] IN
    /\ RetryDue(q)
    /\ requests' = [requests EXCEPT ![r] =
          [q EXCEPT !.pc = "attempt", !.attempt = q.attempt + 1]]
    /\ UNCHANGED <<nanoCount, probe, faults>>

Next ==
    \E r \in Reqs :
       \/ RouteSkip(r)
       \/ RouteInvoke(r)
       \/ ServeStatic(r)
       \/ ValidatorUnbound(r)
       \/ RejectPayload(r)
       \/ EnterRetry(r)
       \/ AttemptCall(r)
       \/ ExternalSuccess(r)
       \/ ExternalApiError(r)
       \/ ExternalTransient(r)
       \/ BackoffElapsed(r)

Spec == Init /\ [][Next]_vars

\* Every step of a handler is either synchronous code or the completion of
\* an await (the body, the external call, the backoff timeout), each of
\* which completes: a request that can take a step eventually takes one.
SpecLive == Init /\ [][Next]_vars /\ WF_vars(Next)

\* Two requests in the process at once, their steps interleaved in every
\* order (each step runs to its next await).  The first is a create-payment
\* request with or without a caller key; the second is a create-payment
\* request with the same caller key, or one of three requests that end
\* before any external call.  Calls that fail without an ApiError fail with
\* one message, so the errors of a request are of two messages: that one
\* and the TypeError of an unmappable result.
PairFirst ==
    {[method |-> "POST", path |-> <<"payment">>, payload |-> p] :
        p \in {Payload([sourceId |-> Str("src1"), locationId |-> Str("loc1"),
                        idempotencyKey |-> Str("key1")]),
               Payload([sourceId |-> Str("src1"), locationId |-> Str("loc1")])}}

PairSecond ==
    {[method |-> "POST", path |-> <<"payment">>,
      payload |-> Payload([sourceId |-> Str("src1"), locationId |-> Str("loc1"),
                           idempotencyKey |-> Str("key1")])],
     [method |-> "POST", path |-> <<"payment">>, payload |-> Payload(<< >>)],
     [method |-> "POST", path |-> <<"cof">>, payload |-> Payload(<< >>)],
     [method |-> "GET", path |-> <<"index.html">>, payload |-> Payload(<< >>)]}

InitPair ==
    /\ \E a \in PairFirst, b \in PairSecond :
          requests = [r \in Reqs |-> IF r = "r1" THEN Arrived(a) ELSE Arrived(b)]
    /\ nanoCount = 0
    /\ probe = NoProbe
    /\ faults = {"ECONNRESET"}

SpecPair == InitPair /\ [][Next]_vars

(***************************************************************************)
(* The validators of schema.js and the request builders of the handlers,   *)
(* applied on their own: SpecPure draws one function and one payload and   *)
(* applies the function to it.                                             *)
(***************************************************************************)
Operations == {"createPayment", "createCard", "listCards", "searchCustomers"}

\* The payloads the model draws for each operation.
PayloadsOf(h) ==
    CASE h = "createPayment" -> PaymentPayloads
      [] h = "createCard" -> CardPayloads
      [] h = "listCards" -> ListCardsPayloads
      [] h = "searchCustomers" -> SearchCustomerPayloads

\* A validator with any payload of its operation; a request builder with a
\* payload its handler's validator accepts, as the handler builds the request
\* after validation only.
Probes ==
    {[NoProbe EXCEPT !.fn = "validate", !.name = h, !.payload = p] :
        <<h, p>> \in UNION {{h} \X PayloadsOf(h) : h \in Operations}}
    \cup {[NoProbe EXCEPT !.fn = "build", !.name = h, !.payload = p] :
        <<h, p>> \in UNION {{h} \X {x \in PayloadsOf(h) : RunValidator(ValidatorName(h), x)} :
                               h \in Operations}}

InitPure ==
    /\ requests = [r \in Reqs |-> Absent]
    /\ nanoCount = 0
    /\ probe \in Probes
    /\ faults = TransientMessages

\* validateXPayload(payload)
ApplyValidator ==
    /\ probe.fn = "validate"
    /\ ~probe.done
    /\ probe' = [probe EXCEPT !.done = TRUE,
                              !.accepted = RunValidator(ValidatorName(probe.name), probe.payload)]
    /\ UNCHANGED <<requests, nanoCount, faults>>

\* The request object a handler builds from a validated payload.
ApplyBuilder ==
    /\ probe.fn = "build"
    /\ ~probe.done
    /\ probe' = [probe EXCEPT !.done = TRUE,
                              !.request = ExternalRequest(probe.name, probe.payload,
                                              IdempotencyKey(probe.payload, nanoCount))]
    /\ nanoCount' = IF UsesKey(probe.name) /\ NeedsNanoid(probe.payload)
                    THEN nanoCount + 1 ELSE nanoCount
    /\ UNCHANGED <<requests, faults>>

NextPure == ApplyValidator \/ ApplyBuilder

SpecPure == InitPure /\ [][NextPure]_vars

(***************************************************************************)
(* Properties.                                                             *)
(***************************************************************************)
\* The operation the interface documents for an endpoint (spec section 6).
DocumentedHandler(method, path) ==
    CASE method = "POST" /\ path = <<"cof">> -> "createCard"
      [] method = "POST" /\ path = <<"payment">> -> "createPayment"
      [] method = "POST" /\ path = <<"searchCustomer">> -> "searchCustomers"
      [] method = "GET" /\ path = <<"cards">> -> "listCards"
      [] OTHER -> "serveStatic"

\* The operation a request is for, by the documented interface.
Doc(q) == DocumentedHandler(q.method, q.path)

\* The payload passes the validator schema.js compiles for the operation.
ValidFor(h, payload) == RunValidator(ValidatorName(h), payload)

RECURSIVE SumOver(_, _)
SumOver(counts, S) ==
    IF S = {} THEN 0
    ELSE LET m == CHOOSE x \in S : TRUE IN counts[m] + SumOver(counts, S \ {m})

\* How many errors of each kind the retried function has thrown so far.
Thrown(q) ==
    [k \in {"Error", "TypeError", "ReferenceError"} |->
        SumOver(q.errors.counts, {e.message : e \in {x \in RetriedErrors : x.kind = k}})]

\* The number of errors the retried function has thrown.
Failures(q) == Thrown(q)["Error"] + Thrown(q)["TypeError"] + Thrown(q)["ReferenceError"]

\* C1: for create-payment and create-card, all external calls made for one
\* request carry the same idempotency key, whether the caller supplied the
\* key or it was generated.  Stated for the runs in which every failed
\* attempt failed by an error the external call raised.
C1_SameKeyOnEveryAttempt ==
    \A r \in Reqs :
       LET q == requests[r] IN
       (q.handler \in {"createPayment", "createCard"} /\ Thrown(q)["TypeError"] = 0) =>
          \A i, j \in DOMAIN q.sent :
             q.sent[i].request.idempotencyKey = q.sent[j].request.idempotencyKey

\* C2: a request whose payload the operation's validator rejects makes no
\* external call and never enters the retry loop.
C2_RejectedPayloadNeverCalls ==
    \A r \in Reqs :
       LET q == requests[r] IN
       (Doc(q) \in Operations /\ ~ValidFor(Doc(q), q.payload)) =>
          /\ q.sent = << >>
          /\ q.attempt = 0
          /\ q.retryPromise = "none"
          /\ q.inflight = {}

\* A create-payment request with a rejected payload has been answered by
\* its handler's validation.
C2_Witness ==
    \E r \in Reqs :
       LET q == requests[r] IN
       /\ q.pc = "done"
       /\ q.handler = "createPayment"
       /\ ~ValidFor("createPayment", q.payload)
       /\ q.error.kind = "HttpError"

\* C3: for each of the four operations, a request whose payload fails
\* schema validation is answered with HTTP 400 and no other status.
C3_RejectedPayloadAnswered400 ==
    \A r \in Reqs :
       LET q == requests[r] IN
       (Doc(q) \in Operations /\ ~ValidFor(Doc(q), q.payload) /\ q.pc = "done") =>
          q.response.status = 400

\* C4: once the external call of attempt n has raised an ApiError, the
\* request is over at attempt n: no later attempt is started, the request
\* resolves to that failure, no success response is sent, and n external
\* calls were made (one when n = 1).
C4_ApiErrorBails ==
    \A r \in Reqs :
       LET q == requests[r] IN
       q.apiErrorAt # 0 =>
          /\ q.pc = "done"
          /\ q.attempt = q.apiErrorAt
          /\ Len(q.sent) = q.apiErrorAt
          /\ q.inflight = {}
          /\ q.retryPromise = "rejected"
          /\ q.error.kind = "ApiError"
          /\ q.successSends = 0
          /\ ~q.response.body.success

\* An ApiError was raised on the first attempt of one run and on a later
\* attempt of another; the witness is the later one.
C4_Witness ==
    \E r \in Reqs :
       LET q == requests[r] IN
       q.apiErrorAt = 3 /\ q.pc = "done" /\ Thrown(q)["Error"] = 2

\* C5: for a valid create-payment request whose external call raised k-1
\* non-ApiError failures and then returned a payment, exactly k external
\* calls were made and exactly one success response was sent, carrying
\* payment {id, status, receiptUrl, orderId}.
C5_RetryThenSuccess ==
    \A r \in Reqs :
       LET q == requests[r] IN
       (/\ q.handler = "createPayment"
        /\ ValidFor("createPayment", q.payload)
        /\ q.extSucceeded >= 1
        /\ Thrown(q)["TypeError"] = 0) =>
          /\ q.pc = "done"
          /\ q.extSucceeded = 1
          /\ q.apiErrorAt = 0
          /\ Len(q.sent) = Thrown(q)["Error"] + 1
          /\ q.successSends = 1
          /\ q.response.body =
                [success |-> TRUE,
                 payment |-> [id |-> PaymentObject.id,
                              status |-> PaymentObject.status,
                              receiptUrl |-> PaymentObject.receiptUrl,
                              orderId |-> PaymentObject.orderId]]

C5_Witness ==
    \E r \in Reqs :
       LET q == requests[r] IN
       /\ q.handler = "createPayment"
       /\ Thrown(q)["Error"] = 3
       /\ Thrown(q)["TypeError"] = 0
       /\ q.extSucceeded = 1
       /\ Len(q.sent) = 4
       /\ q.successSends = 1

\* The response object the interface documents for each operation.
DocumentedObject(h) ==
    CASE h = "createPayment" -> [name |-> "payment", fields |-> {"id", "status", "receiptUrl", "orderId"}]
      [] h = "createCard" -> [name |-> "card", fields |-> {"id"}]
      [] h = "listCards" -> [name |-> "card", fields |-> {"id", "card_brand", "last4"}]
      [] h = "searchCustomers" -> [name |-> "customer", fields |-> {"id", "given_name", "family_name"}]

\* C6: for each of the four operations, a request with a valid payload
\* whose external call never fails ends with exactly one external call and
\* one success response {success: true, <operation object>} in the
\* documented shape.
C6_FirstAttemptSuccess ==
    \A r \in Reqs :
       LET q == requests[r]
           obj == DocumentedObject(Doc(q))
       IN
       (/\ Doc(q) \in Operations
        /\ ValidFor(Doc(q), q.payload)
        /\ q.pc = "done"
        /\ q.apiErrorAt = 0
        /\ Thrown(q)["Error"] = 0
        /\ Thrown(q)["TypeError"] = 0) =>
          /\ Len(q.sent) = 1
          /\ q.successSends = 1
          /\ q.response.body.success
          /\ DOMAIN q.response.body = {"success", obj.name}
          /\ DOMAIN q.response.body[obj.name] = obj.fields

\* C7: if every external call of a request raised a non-ApiError failure,
\* the handler made exactly MaxAttempts calls, stopped, and the request
\* failed without a success response.
C7_ExhaustedRetriesFail ==
    \A r \in Reqs :
       LET q == requests[r] IN
       /\ Len(q.sent) <= MaxAttempts
       /\ (/\ q.pc = "done"
           /\ q.retryPromise # "none"
           /\ q.extSucceeded = 0
           /\ q.apiErrorAt = 0) =>
             /\ Len(q.sent) = MaxAttempts
             /\ Thrown(q)["Error"] = MaxAttempts
             /\ q.attempt = MaxAttempts
             /\ q.retryPromise = "rejected"
             /\ q.error.kind = "Error"
             /\ q.successSends = 0
             /\ ~q.response.body.success

C7_Witness ==
    \E r \in Reqs :
       LET q == requests[r] IN
       q.pc = "done" /\ Thrown(q)["Error"] = MaxAttempts /\ q.retryPromise = "rejected"

\* C8: every request forwarded to the external createPayment call has
\* amountMoney = {amount: '100', currency: 'USD'}, and the client-supplied
\* amount appears nowhere in it.
C8_AmountIsServerConstant ==
    \A r \in Reqs :
       LET q == requests[r] IN
       \A i \in DOMAIN q.sent :
          q.sent[i].api = "paymentsApi.createPayment" =>
             LET req == q.sent[i].request IN
             /\ req.amountMoney = [amount |-> Str("100"), currency |-> Str("USD")]
             /\ "amount" \notin DOMAIN req
             /\ Has(q.payload, "amount") =>
                   /\ \A f \in (DOMAIN req) \ {"amountMoney"} : req[f] # q.payload["amount"]
                   /\ \A f \in DOMAIN req.amountMoney : req.amountMoney[f] # q.payload["amount"]

\* A payload that carries an amount has been forwarded, on a first attempt
\* and on a retry.
C8_Witness ==
    \E r \in Reqs :
       LET q == requests[r] IN
       /\ Has(q.payload, "amount")
       /\ Len(q.sent) >= 2
       /\ q.sent[2].api = "paymentsApi.createPayment"

\* C9: a GET request to /cards is dispatched to the list-cards handler.
C9_GetCardsReachesListCards ==
    \A r \in Reqs :
       LET q == requests[r] IN
       (q.method = "GET" /\ q.path = <<"cards">> /\ q.handler # "none") =>
          q.handler = "listCards"

\* C10: within one request at most one attempt is in flight; an attempt
\* after the first is started only when every attempt before it has failed,
\* and none is started after an attempt has succeeded or bailed.
C10_AttemptsAreSequential ==
    \A r \in Reqs :
       LET q == requests[r] IN
       /\ Cardinality(q.inflight) <= 1
       /\ q.inflight \subseteq {q.attempt}
       /\ q.pc \in {"attempt", "calling"} =>
             /\ Failures(q) = q.attempt - 1
             /\ q.lastAttempt = IF q.attempt = 1 THEN "none" ELSE "failed"
       /\ q.lastAttempt \in {"succeeded", "bailed"} => (q.pc = "done" /\ q.inflight = {})

\* A second attempt is in flight, after the first one failed.
C10_Witness ==
    \E r \in Reqs :
       LET q == requests[r] IN
       q.attempt = 2 /\ q.inflight = {2} /\ q.lastAttempt = "failed"

\* A JSON string, and a JSON number that is an integer in 0..2^32-1.
IsString(v) == v.t = "string"

IsUint32(v) == v.t = "number" /\ v.fr = 0 /\ v.hi >= 0 /\ v.hi < 65536

\* The schema of each operation, and the property names it mentions.
SchemaOf(h) ==
    CASE h = "createPayment" -> paymentSchema
      [] h = "createCard" -> cardSchema
      [] h = "listCards" -> listCardsSchema
      [] h = "searchCustomers" -> searchCustomerSchema

SchemaFields(h) == (DOMAIN SchemaOf(h).properties) \cup (DOMAIN SchemaOf(h).optionalProperties)

\* The payload without the properties its operation's schema does not mention.
Known(h, payload) == [f \in Fields |-> IF f \in SchemaFields(h) THEN payload[f] ELSE Undefined]

HasExtra(h, payload) == \E f \in Fields \ SchemaFields(h) : Has(payload, f)

\* C11: the card validator accepts a create-card payload with valid
\* expMonth, expYear, cardHolderName, customerId and sourceId that omits
\* idempotencyKey and/or verificationToken.
C11_CardKeyAndTokenOptional ==
    LET p == probe.payload IN
    (/\ probe.fn = "validate" /\ probe.done /\ probe.name = "createCard"
     /\ IsUint32(p["expMonth"]) /\ IsUint32(p["expYear"])
     /\ IsString(p["cardHolderName"]) /\ IsString(p["customerId"]) /\ IsString(p["sourceId"])
     /\ ~Has(p, "idempotencyKey") \/ ~Has(p, "verificationToken")
     /\ Has(p, "idempotencyKey") => IsString(p["idempotencyKey"])
     /\ Has(p, "verificationToken") => IsString(p["verificationToken"])
     /\ ~HasExtra("createCard", p)) =>
        probe.accepted

\* C12 as claimed: a payload that satisfies the constraints on the
\* properties its schema mentions is accepted also when it carries an
\* unknown extra property.
C12_ExtraFieldsAccepted ==
    (/\ probe.fn = "validate" /\ probe.done
     /\ ValidFor(probe.name, Known(probe.name, probe.payload))) =>
        probe.accepted

\* C12 as amended: every validator rejects a payload that carries an
\* unknown extra property, also when the payload satisfies every constraint
\* on the properties the schema mentions.
C12_ExtraFieldsRejected ==
    (/\ probe.fn = "validate" /\ probe.done
     /\ HasExtra(probe.name, probe.payload)) =>
        ~probe.accepted

\* A payment payload that is valid but for its extra property was rejected.
C12_Witness ==
    /\ probe.fn = "validate" /\ probe.done /\ probe.name = "createPayment"
    /\ HasExtra("createPayment", probe.payload)
    /\ ValidFor("createPayment", Known("createPayment", probe.payload))
    /\ ~probe.accepted

\* C13: on payloads built from sourceId, locationId, amount, idempotencyKey
\* and verificationToken only, validatePaymentPayload returns false exactly
\* when sourceId or locationId is missing or not a string, or a present
\* amount is not a uint32, or a present idempotencyKey or verificationToken
\* is not a string.
C13_PaymentValidatorRejectsExactly ==
    LET p == probe.payload IN
    (/\ probe.fn = "validate" /\ probe.done /\ probe.name = "createPayment"
     /\ ~HasExtra("createPayment", p)) =>
        (~probe.accepted <=>
            \/ ~Has(p, "sourceId") \/ ~IsString(p["sourceId"])
            \/ ~Has(p, "locationId") \/ ~IsString(p["locationId"])
            \/ Has(p, "amount") /\ ~IsUint32(p["amount"])
            \/ Has(p, "idempotencyKey") /\ ~IsString(p["idempotencyKey"])
            \/ Has(p, "verificationToken") /\ ~IsString(p["verificationToken"]))

\* A payment payload was rejected for its amount of 2^32 alone.
C13_Witness ==
    LET p == probe.payload IN
    /\ probe.fn = "validate" /\ probe.done /\ probe.name = "createPayment"
    /\ ~HasExtra("createPayment", p)
    /\ IsString(p["sourceId"]) /\ IsString(p["locationId"])
    /\ p["amount"] = Num(65536, 0, 0)
    /\ ~Has(p, "idempotencyKey") /\ ~Has(p, "verificationToken")
    /\ ~probe.accepted

\* C14: every failed attempt, ApiError or transient, produces an error log
\* entry that carries the attempt number and the cause: there are as many
\* entries as failed attempts, and the latest carries the number of the
\* latest failed attempt and its cause.
C14_FailuresLoggedWithAttempt ==
    \A r \in Reqs :
       LET q == requests[r] IN
       /\ q.errorLogs = Failures(q) + (IF q.apiErrorAt # 0 THEN 1 ELSE 0)
       /\ q.errorLogs > 0 =>
             /\ q.lastLog.hasAttempt
             /\ q.lastLog.attempt = q.errorLogs
             /\ q.lastLog.cause # "none"

\* C15: every request reaches a terminal outcome and stays there, having
\* started at most MaxAttempts attempts.
C15_EveryRequestTerminates ==
    /\ [](\A r \in Reqs : requests[r].attempt <= MaxAttempts
                          /\ Len(requests[r].sent) <= MaxAttempts)
    /\ <>[](\A r \in Reqs : requests[r].pc \in {"absent", "done"})

\* A request has ended after every one of its attempts got a result it
\* could not map.
C15_Witness ==
    \E r \in Reqs :
       LET q == requests[r] IN
       q.pc = "done" /\ Thrown(q)["TypeError"] = MaxAttempts /\ q.extSucceeded = MaxAttempts

\* C16: once an external call of a request has returned a success result,
\* no further external call is made for that request.
C16_NoCallAfterSuccess ==
    [][\A r \in Reqs :
          requests[r].extSucceeded >= 1 => Len(requests'[r].sent) = Len(requests[r].sent)]_vars

\* C17: the card object create-card builds has the customerId of the
\* validated payload.
C17_CardCustomerIdForwarded ==
    (probe.fn = "build" /\ probe.done /\ probe.name = "createCard") =>
       probe.request.card.customerId = probe.payload["customerId"]

\* C18: a request forwarded by create-payment has a verificationToken
\* exactly when the payload carries a non-empty one, and then the payload's;
\* its locationId and sourceId are the payload's.
C18_PaymentRequestFrame ==
    \A r \in Reqs :
       LET q == requests[r] IN
       \A i \in DOMAIN q.sent :
          q.sent[i].api = "paymentsApi.createPayment" =>
             LET req == q.sent[i].request
                 token == q.payload["verificationToken"]
             IN
             /\ ("verificationToken" \in DOMAIN req) <=> (IsString(token) /\ token.s # "")
             /\ ("verificationToken" \in DOMAIN req) => req.verificationToken = token
             /\ req.locationId = q.payload["locationId"]
             /\ req.sourceId = q.payload["sourceId"]

\* A payload with a token and a payload with an empty token were forwarded;
\* the witness is the retry of one with a token.
C18_Witness ==
    \E r \in Reqs :
       LET q == requests[r] IN
       /\ Len(q.sent) >= 2
       /\ q.payload["verificationToken"] = Str("tok1")
       /\ q.sent[2].request.verificationToken = Str("tok1")

\* C19: a request sends at most one success response, and never both sends
\* a success response and ends in a failure.
C19_OneOutcome ==
    \A r \in Reqs :
       LET q == requests[r] IN
       /\ q.successSends <= 1
       /\ q.successSends = 1 =>
             /\ q.pc = "done"
             /\ q.error.kind = "none"
             /\ q.retryPromise = "resolved"
             /\ q.response.body.success
       /\ q.error.kind # "none" =>
             /\ q.successSends = 0
             /\ ~q.response.body.success

\* A success response was sent after attempts that failed in both ways.
C19_Witness ==
    \E r \in Reqs :
       LET q == requests[r] IN
       q.successSends = 1 /\ Thrown(q)["TypeError"] >= 1 /\ Thrown(q)["Error"] >= 1

\* The other request of the pair.
Other(r) == CHOOSE o \in Reqs : o # r

\* The idempotency keys a request has sent.
KeysSent(q) == {q.sent[i].request.idempotencyKey : i \in DOMAIN q.sent}

\* C20: with two requests interleaved in every order, each request's
\* external calls, idempotency key and final outcome are those its own
\* payload and its own external-call outcomes give:
\*   - the key is the payload's key when it carries one, also when the other
\*     request carries the same key, and otherwise a generated key that the
\*     other request does not send;
\*   - every external call has one outcome of the request's own, and the
\*     request has ended exactly when it got a response it could send, an
\*     ApiError, or MaxAttempts failures;
\*   - the outcome is a resolved success, the ApiError, or the error whose
\*     message is the most frequent among its own errors; a request that made
\*     no call ended by its own route and payload.
C20_RequestsAreIndependent ==
    \A r \in Reqs :
       LET q == requests[r]
           o == requests[Other(r)]
       IN
       /\ IF Truthy(q.payload["idempotencyKey"])
          THEN KeysSent(q) \subseteq {q.payload["idempotencyKey"]}
          ELSE KeysSent(q) \cap (KeysSent(o) \cup {o.payload["idempotencyKey"]}) = {}
       /\ Len(q.sent) = Thrown(q)["Error"] + Thrown(q)["TypeError"] + q.successSends
                        + (IF q.apiErrorAt # 0 THEN 1 ELSE 0) + Cardinality(q.inflight)
       /\ q.retryPromise # "none" =>
             /\ q.handler = "createPayment" /\ ValidFor("createPayment", q.payload)
             /\ q.attempt = Failures(q) + (IF q.pc \in {"backoff", "done"} /\ q.successSends = 0
                                                /\ q.apiErrorAt = 0 THEN 0 ELSE 1)
             /\ (q.pc = "done") <=>
                   (q.successSends = 1 \/ q.apiErrorAt # 0 \/ Failures(q) = MaxAttempts)
             /\ q.pc = "done" =>
                   /\ q.retryPromise = IF q.successSends = 1 THEN "resolved" ELSE "rejected"
                   /\ q.error.kind =
                         IF q.successSends = 1 THEN "none"
                         ELSE IF q.apiErrorAt # 0 THEN "ApiError"
                         ELSE q.errors.mainError.kind
                   /\ (q.successSends = 0 /\ q.apiErrorAt = 0) =>
                         /\ q.error = q.errors.mainError
                         /\ \A m \in RetriedMessages :
                               q.errors.counts[m] <= q.errors.counts[q.error.message]
       /\ (q.pc = "done" /\ q.retryPromise = "none") =>
             \/ q.handler = "serveStatic" /\ q.method = "GET"
             \/ q.error.kind = "ReferenceError" /\ q.handler # "createPayment"
             \/ /\ q.error.kind = "HttpError" /\ q.handler = "createPayment"
                /\ ~ValidFor("createPayment", q.payload)

\* Two requests with the same payload and the same caller key, interleaved:
\* one has ended with a success response after a retry while the other has
\* ended with an ApiError on its third attempt.
C20_Witness ==
    /\ requests["r1"].payload = requests["r2"].payload
    /\ Truthy(requests["r1"].payload["idempotencyKey"])
    /\ requests["r1"].successSends = 1 /\ Len(requests["r1"].sent) = 2
    /\ requests["r2"].apiErrorAt = 3 /\ requests["r2"].pc = "done"

====
